---- MODULE Spec2Model ----
(***************************************************************************)
(* fir-designer: windowed-sinc FIR design (src/src/fir.rs) and the         *)
(* analysis views and the egui application state (src/src/gui.rs).         *)
(*                                                                         *)
(* f64 is modelled as a binary fixed-point number with FRAC_BITS           *)
(* fractional bits (the integer v stands for v / ONE), extended with the   *)
(* IEEE-754 special values NaN, +infinity and -infinity.  Every operation  *)
(* rounds to the nearest representable value, as f64 does at its own       *)
(* precision.  Zero carries no sign: x / 0 takes the sign of x.            *)
(***************************************************************************)
EXTENDS Integers, Sequences, FiniteSets, TLC

(***************************************************************************)
(* f64 values                                                              *)
(***************************************************************************)
FRAC_BITS == 10
ONE == 2 ^ FRAC_BITS

NaN == [k |-> "nan", v |-> 0]
PosInf == [k |-> "inf", v |-> 1]
NegInf == [k |-> "inf", v |-> -1]
Fin(v) == [k |-> "fin", v |-> v]

IsNaN(a) == a.k = "nan"
IsFinite(a) == a.k = "fin"
IsZero(a) == a.k = "fin" /\ a.v = 0

\* `n as f64` for an integer n
F64(n) == [k |-> "fin", v |-> n * ONE]
\* a decimal literal given in millionths, e.g. 0.355768 is Micro(355768)
Micro(m) == [k |-> "fin", v |-> (m * ONE + 500000) \div 1000000]

AbsInt(i) == IF i < 0 THEN -i ELSE i

\* round(big * small / ONE), split so that no intermediate exceeds 2^31
MulSplit(big, small) ==
    (big \div ONE) * small + ((big % ONE) * small + ONE \div 2) \div ONE
\* round(a * b / ONE) on magnitudes
MulMag(a, b) == IF a >= b THEN MulSplit(a, b) ELSE MulSplit(b, a)
\* round(a * ONE / b) on magnitudes, b > 0
DivMag(a, b) == (a \div b) * ONE + ((a % b) * ONE + b \div 2) \div b

Neg(a) == [k |-> a.k, v |-> -a.v]

Abs(a) == [k |-> a.k, v |-> IF a.v < 0 THEN -a.v ELSE a.v]

Add(a, b) ==
    IF a.k = "nan" \/ b.k = "nan" THEN NaN
    ELSE IF a.k = "inf" THEN (IF b.k = "inf" /\ a.v # b.v THEN NaN ELSE a)
    ELSE IF b.k = "inf" THEN b
    ELSE [k |-> "fin", v |-> a.v + b.v]

Sub(a, b) ==
    IF a.k = "nan" \/ b.k = "nan" THEN NaN
    ELSE IF a.k = "inf" THEN (IF b.k = "inf" /\ a.v = b.v THEN NaN ELSE a)
    ELSE IF b.k = "inf" THEN [k |-> "inf", v |-> -b.v]
    ELSE [k |-> "fin", v |-> a.v - b.v]

Mul(a, b) ==
    IF a.k = "nan" \/ b.k = "nan" THEN NaN
    ELSE IF a.k = "inf" \/ b.k = "inf"
         THEN (IF a.v = 0 \/ b.v = 0 THEN NaN
               ELSE IF (a.v < 0) = (b.v < 0) THEN PosInf ELSE NegInf)
    ELSE IF (a.v < 0) = (b.v < 0)
         THEN [k |-> "fin", v |-> MulMag(AbsInt(a.v), AbsInt(b.v))]
         ELSE [k |-> "fin", v |-> -MulMag(AbsInt(a.v), AbsInt(b.v))]

Div(a, b) ==
    IF a.k = "nan" \/ b.k = "nan" THEN NaN
    ELSE IF a.k = "inf"
         THEN (IF b.k = "inf" THEN NaN
               ELSE IF (a.v < 0) = (b.v < 0) THEN PosInf ELSE NegInf)
    ELSE IF b.k = "inf" THEN [k |-> "fin", v |-> 0]
    ELSE IF b.v = 0
         THEN (IF a.v = 0 THEN NaN ELSE IF a.v < 0 THEN NegInf ELSE PosInf)
    ELSE IF (a.v < 0) = (b.v < 0)
         THEN [k |-> "fin", v |-> DivMag(AbsInt(a.v), AbsInt(b.v))]
         ELSE [k |-> "fin", v |-> -DivMag(AbsInt(a.v), AbsInt(b.v))]

\* f64::powi(2)
Powi2(a) == Mul(a, a)

\* largest r with r * r <= x, by bisection on [lo, hi)
RECURSIVE ISqrtIn(_, _, _)
ISqrtIn(x, lo, hi) ==
    IF hi - lo <= 1 THEN lo
    ELSE IF ((lo + hi) \div 2) * ((lo + hi) \div 2) <= x
         THEN ISqrtIn(x, (lo + hi) \div 2, hi)
         ELSE ISqrtIn(x, lo, (lo + hi) \div 2)

\* f64::sqrt
Sqrt(a) ==
    IF a.k = "nan" \/ a.v < 0 THEN NaN
    ELSE IF a.k = "inf" THEN PosInf
    ELSE IF a.v < 2 ^ 20 THEN [k |-> "fin", v |-> ISqrtIn(a.v * ONE, 0, 46341)]
    ELSE [k |-> "fin", v |-> ISqrtIn(a.v, 0, 46341) * (2 ^ (FRAC_BITS \div 2))]

(***************************************************************************)
(* std::f64::consts::PI and the trigonometric functions                    *)
(***************************************************************************)
PI == 3217
PIf == [k |-> "fin", v |-> PI]
TWO_PI == 2 * PI
HALF_PI == PI \div 2

\* 1 - (x2 / d) * rest, one step of a Taylor polynomial in Horner form
Horner(x2, d, rest) == ONE - (MulMag(x2, rest) + d \div 2) \div d

\* sin on [0, pi/2]: x (1 - x^2/6 (1 - x^2/20 (1 - x^2/42))), x2 = x^2
SinPoly2(x, x2) ==
    MulMag(x, Horner(x2, 6, Horner(x2, 20, Horner(x2, 42, ONE))))
SinPoly(x) == SinPoly2(x, MulMag(x, x))

\* cos on [0, pi/2]: 1 - x^2/2 (1 - x^2/12 (1 - x^2/30 (1 - x^2/56)))
CosPoly2(x2) == Horner(x2, 2, Horner(x2, 12, Horner(x2, 30, Horner(x2, 56, ONE))))
CosPoly(x) == IF x >= HALF_PI THEN 0 ELSE CosPoly2(MulMag(x, x))

\* an angle r in [0, 2 pi) folded into the first quadrant
Quadrant(r) ==
    IF r <= HALF_PI THEN r
    ELSE IF r <= PI THEN PI - r
    ELSE IF r <= PI + HALF_PI THEN r - PI
    ELSE TWO_PI - r

SinReduced(r) == IF r <= PI THEN SinPoly(Quadrant(r)) ELSE -SinPoly(Quadrant(r))
CosReduced(r) ==
    IF r <= HALF_PI \/ r > PI + HALF_PI THEN CosPoly(Quadrant(r)) ELSE -CosPoly(Quadrant(r))

\* f64::sin
Sin(a) == IF a.k = "fin" THEN [k |-> "fin", v |-> SinReduced(a.v % TWO_PI)] ELSE NaN
\* f64::cos
Cos(a) == IF a.k = "fin" THEN [k |-> "fin", v |-> CosReduced(a.v % TWO_PI)] ELSE NaN

\* floor(log2(m / ONE)) and the mantissa scaled into [ONE, 2 ONE), m > 0
RECURSIVE Log2Norm(_, _)
Log2Norm(m, e) ==
    IF m >= 2 * ONE THEN Log2Norm(m \div 2, e + 1)
    ELSE IF m < ONE THEN Log2Norm(m * 2, e - 1)
    ELSE <<m, e>>

\* the fractional bits of log2(m / ONE), m in [ONE, 2 ONE), by repeated squaring
RECURSIVE Log2Frac(_, _, _)
Log2Frac(m, bit, acc) ==
    IF bit = 0 THEN acc
    ELSE IF (m * m) \div ONE >= 2 * ONE
         THEN Log2Frac((m * m) \div (2 * ONE), bit \div 2, acc + bit)
         ELSE Log2Frac((m * m) \div ONE, bit \div 2, acc)

Log2Of(ne) == ne[2] * ONE + Log2Frac(ne[1], ONE \div 2, 0)

\* f64::log10
Log10(a) ==
    IF a.k = "nan" \/ a.v < 0 THEN NaN
    ELSE IF a.k = "inf" THEN PosInf
    ELSE IF a.v = 0 THEN NegInf
    ELSE Mul([k |-> "fin", v |-> Log2Of(Log2Norm(a.v, 0))], Micro(301030))

(***************************************************************************)
(* Window functions (fir.rs)                                               *)
(***************************************************************************)
Windows == {"Rectangular", "Triangular", "Welch", "Sin", "Hann", "Hamming",
            "Blackman", "Nuttall", "BlackmanNuttall", "BlackmanHarris", "FlatTop"}

\* (k.0 * PI * n / len).cos() with n, len already cast to f64
CosTerm(k, n, len) == Cos(Div(Mul(Mul(F64(k), PIf), n), len))

\* window_rectangular as the ratio len / len
window_rectangular_ratio(n, len) == Div(F64(len), F64(len))

window_rectangular(n, len) == F64(1)

window_triangular(n, len) ==
    LET nf == F64(n)
        lf == F64(len)
    IN  Sub(F64(1), Abs(Div(Sub(nf, Mul(Micro(500000), lf)), Mul(Micro(500000), lf))))

window_welch(n, len) ==
    LET nf == F64(n)
        lf == F64(len)
    IN  Sub(F64(1), Powi2(Div(Sub(nf, Mul(Micro(500000), lf)), Mul(Micro(500000), lf))))

window_sin(n, len) == Sin(Div(Mul(PIf, F64(n)), F64(len)))

window_hann(n, len) ==
    Mul(Micro(500000), Sub(F64(1), CosTerm(2, F64(n), F64(len))))

window_hamming(n, len) ==
    Sub(Div(F64(25), F64(46)),
        Mul(Div(F64(21), F64(46)), CosTerm(2, F64(n), F64(len))))

window_blackman(n, len) ==
    Add(Sub(Micro(420000), Mul(Micro(500000), CosTerm(2, F64(n), F64(len)))),
        Mul(Micro(80000), CosTerm(4, F64(n), F64(len))))

\* a0 - a1 cos(2 pi n/len) + a2 cos(4 pi n/len) - a3 cos(6 pi n/len),
\* the coefficients in millionths
Cosine4(a0, a1, a2, a3, n, len) ==
    Sub(Add(Sub(Micro(a0), Mul(Micro(a1), CosTerm(2, F64(n), F64(len)))),
            Mul(Micro(a2), CosTerm(4, F64(n), F64(len)))),
        Mul(Micro(a3), CosTerm(6, F64(n), F64(len))))

window_nuttall(n, len) == Cosine4(355768, 487396, 144232, 12604, n, len)

window_blackman_nuttall(n, len) == Cosine4(363582, 489178, 136600, 10641, n, len)

window_blackman_harris(n, len) == Cosine4(358750, 488290, 141280, 11680, n, len)

window_flat_top(n, len) ==
    Add(Cosine4(215579, 416632, 277263, 83579, n, len),
        Mul(Micro(6947), CosTerm(8, F64(n), F64(len))))

\* Window::function applied to (n, len)
WindowFn(window, n, len) ==
    CASE window = "Rectangular" -> window_rectangular(n, len)
      [] window = "Triangular" -> window_triangular(n, len)
      [] window = "Welch" -> window_welch(n, len)
      [] window = "Sin" -> window_sin(n, len)
      [] window = "Hann" -> window_hann(n, len)
      [] window = "Hamming" -> window_hamming(n, len)
      [] window = "Blackman" -> window_blackman(n, len)
      [] window = "Nuttall" -> window_nuttall(n, len)
      [] window = "BlackmanNuttall" -> window_blackman_nuttall(n, len)
      [] window = "BlackmanHarris" -> window_blackman_harris(n, len)
      [] window = "FlatTop" -> window_flat_top(n, len)

(***************************************************************************)
(* Filter kernels (fir.rs)                                                 *)
(***************************************************************************)
Filters == {"LowPass", "HighPass", "BandPass", "BandStop"}

\* (2.0 * PI * f_cut * dt * (n - shift)).sin()
SinCut(f_cut, dt, tau) == Sin(Mul(Mul(Mul(Mul(F64(2), PIf), f_cut), dt), tau))
\* (PI * (n - shift)).sin()
SinPiTau(tau) == Sin(Mul(PIf, tau))
\* PI * dt * (n - shift)
PiDtTau(dt, tau) == Mul(Mul(PIf, dt), tau)

\* filter_low_pass with the tap at n = shift taken as f_hi_cut, not 2.0 * f_hi_cut
filter_low_pass_half(n, shift, dt, f_lo_cut, f_hi_cut) ==
    LET tau == Sub(F64(n), F64(shift))
    IN  IF F64(n) # F64(shift)
        THEN Div(SinCut(f_hi_cut, dt, tau), PiDtTau(dt, tau))
        ELSE f_hi_cut

filter_low_pass(n, shift, dt, f_lo_cut, f_hi_cut) ==
    LET tau == Sub(F64(n), F64(shift))
    IN  IF F64(n) # F64(shift)
        THEN Div(SinCut(f_hi_cut, dt, tau), PiDtTau(dt, tau))
        ELSE Mul(F64(2), f_hi_cut)

filter_high_pass(n, shift, dt, f_lo_cut, f_hi_cut) ==
    LET tau == Sub(F64(n), F64(shift))
    IN  IF F64(n) # F64(shift)
        THEN Div(Sub(SinPiTau(tau), SinCut(f_lo_cut, dt, tau)), PiDtTau(dt, tau))
        ELSE Sub(Div(F64(1), dt), Mul(F64(2), f_lo_cut))

filter_band_pass(n, shift, dt, f_lo_cut, f_hi_cut) ==
    LET tau == Sub(F64(n), F64(shift))
    IN  IF F64(n) # F64(shift)
        THEN Div(Sub(SinCut(f_hi_cut, dt, tau), SinCut(f_lo_cut, dt, tau)),
                 PiDtTau(dt, tau))
        ELSE Sub(Mul(F64(2), f_hi_cut), Mul(F64(2), f_lo_cut))

\* filter_band_stop without the n = shift branch
filter_band_stop_unguarded(n, shift, dt, f_lo_cut, f_hi_cut) ==
    Div(Add(Sub(SinCut(f_lo_cut, dt, Sub(F64(n), F64(shift))),
                SinCut(f_hi_cut, dt, Sub(F64(n), F64(shift)))),
            SinPiTau(Sub(F64(n), F64(shift)))),
        PiDtTau(dt, Sub(F64(n), F64(shift))))

filter_band_stop(n, shift, dt, f_lo_cut, f_hi_cut) ==
    LET tau == Sub(F64(n), F64(shift))
    IN  IF F64(n) # F64(shift)
        THEN Div(Add(Sub(SinCut(f_lo_cut, dt, tau), SinCut(f_hi_cut, dt, tau)),
                     SinPiTau(tau)),
                 PiDtTau(dt, tau))
        ELSE Add(Sub(Mul(F64(2), f_lo_cut), Mul(F64(2), f_hi_cut)), Div(F64(1), dt))

\* Filter::function applied to its five arguments
FilterFn(filter, n, shift, dt, f_lo_cut, f_hi_cut) ==
    CASE filter = "LowPass" -> filter_low_pass(n, shift, dt, f_lo_cut, f_hi_cut)
      [] filter = "HighPass" -> filter_high_pass(n, shift, dt, f_lo_cut, f_hi_cut)
      [] filter = "BandPass" -> filter_band_pass(n, shift, dt, f_lo_cut, f_hi_cut)
      [] filter = "BandStop" -> filter_band_stop(n, shift, dt, f_lo_cut, f_hi_cut)

(***************************************************************************)
(* FilterDef (fir.rs)                                                      *)
(***************************************************************************)
\* Iterator::collect into a Vec: the mapped sequence as an explicit vector
Collect(s) == s \o <<>>

\* an accumulator of a fold has its value at every step: comparing it evaluates it
\* before the next step is taken
Evaluated(acc) == acc = acc

\* FilterDef::compute_dc_gain: the fold g += h from 0.0, n taps done
RECURSIVE compute_dc_gain_fold(_, _, _)
compute_dc_gain_fold(f, n, g) ==
    IF Evaluated(g) /\ n < Len(f)
    THEN compute_dc_gain_fold(f, n + 1, Add(g, f[n + 1]))
    ELSE g
compute_dc_gain(f) == compute_dc_gain_fold(f, 0, F64(0))

\* one step of the fold of compute_gain: re += h * cos(w * n), im -= h * sin(w * n)
compute_gain_step(reim, h, angle) ==
    <<Add(reim[1], Mul(h, Cos(angle))), Sub(reim[2], Mul(h, Sin(angle)))>>

\* FilterDef::compute_gain: the fold over the taps, n counting from 0
RECURSIVE compute_gain_fold(_, _, _, _)
compute_gain_fold(f, w, n, reim) ==
    IF Evaluated(reim) /\ n < Len(f)
    THEN compute_gain_fold(f, w, n + 1,
                           compute_gain_step(reim, f[n + 1], Mul(w, F64(n))))
    ELSE reim

\* sqrt(re^2 + im^2) of the pair the fold returns
Magnitude(reim) == Sqrt(Add(Powi2(reim[1]), Powi2(reim[2])))
compute_gain(f, w) == Magnitude(compute_gain_fold(f, w, 0, <<F64(0), F64(0)>>))

\* normalize_filter with a guard that leaves the taps alone when the gain is zero
normalize_filter_guarded(f, g) ==
    IF IsZero(g) THEN f ELSE Collect([i \in 1..Len(f) |-> Div(f[i], g)])

\* FilterDef::normalize_filter
normalize_filter(f, g) == Collect([i \in 1..Len(f) |-> Div(f[i], g)])

\* the closure of compute_filter at n: the kernel's tap, dt = 1.0 / f_sampling
compute_filter_tap(def, n) ==
    FilterFn(def.filter, n, def.shift, Div(F64(1), def.f_sampling),
             def.f_lo_cut, def.f_hi_cut)

\* the local f of compute_filter: the kernel before normalization
compute_filter_f(def) == Collect([i \in 1..def.len |-> compute_filter_tap(def, i - 1)])

\* the gain selection with the DC gain taken for every class
compute_filter_g_dc(def, f) == compute_dc_gain(f)

\* the gain selection with the HighPass gain taken at the band centre, as for BandPass
compute_filter_g_center(def, f) ==
    IF def.filter \in {"LowPass", "BandStop"} THEN compute_dc_gain(f)
    ELSE compute_gain(f, Add(def.f_lo_cut,
                             Div(Sub(def.f_hi_cut, def.f_lo_cut), F64(2))))

\* the local g of compute_filter: the gain selected by the filter class
compute_filter_g(def, f) ==
    CASE def.filter \in {"LowPass", "BandStop"} -> compute_dc_gain(f)
      [] def.filter = "BandPass" ->
            compute_gain(f, Add(def.f_lo_cut,
                                Div(Sub(def.f_hi_cut, def.f_lo_cut), F64(2))))
      [] def.filter = "HighPass" -> compute_gain(f, Div(def.f_sampling, F64(2)))

\* compute_filter returning its local f as it is, the gain left unused
compute_filter_ret_raw(def, f) == f

\* the last line of compute_filter, given its local f
compute_filter_ret(def, f) == normalize_filter(f, compute_filter_g(def, f))

\* FilterDef::compute_filter
compute_filter(def) == compute_filter_ret(def, compute_filter_f(def))

\* the closure of compute_window passing len for len - 1
compute_window_tap_periodic(def, n) == WindowFn(def.window, n, def.len)

\* the closure of compute_window at n; len - 1 is evaluated in it, once per index
compute_window_tap(def, n) == WindowFn(def.window, n, def.len - 1)

\* compute_window with the one-tap window replaced by 1.0
compute_window_guarded(def) ==
    Collect([i \in 1..def.len |->
        IF def.len - 1 = 0 THEN F64(1) ELSE compute_window_tap(def, i - 1)])

\* compute_window over 0..len - 1 for 0..len: one tap short
compute_window_short(def) ==
    Collect([i \in 1..(def.len - 1) |-> compute_window_tap(def, i - 1)])

\* FilterDef::compute_window
compute_window(def) == Collect([i \in 1..def.len |-> compute_window_tap(def, i - 1)])

\* the outcome of a call: a value returned, or a panic that unwinds
Ok(val) == [panic |-> FALSE, val |-> val]
Panic == [panic |-> TRUE, val |-> <<>>]

\* compute_filter_windowed without the length test: zip stops at the shorter vector
compute_filter_windowed_zip(f, w) ==
    Ok(Collect([i \in 1..(IF Len(f) < Len(w) THEN Len(f) ELSE Len(w)) |-> Mul(f[i], w[i])]))

\* FilterDef::compute_filter_windowed
compute_filter_windowed(f, w) ==
    IF Len(f) # Len(w) THEN Panic
    ELSE Ok(Collect([i \in 1..Len(f) |-> Mul(f[i], w[i])]))

(***************************************************************************)
(* Analysis views (gui.rs)                                                 *)
(***************************************************************************)
DFT_LEN == 256

\* the x of point n of a time-domain view: n as f64 * dt, dt = 1.0 / f_sampling
PlotT(n, f_sampling) == Mul(F64(n), Div(F64(1), f_sampling))

plot_window(w, f_sampling) ==
    Collect([i \in 1..Len(w) |-> <<PlotT(i - 1, f_sampling), w[i]>>])

plot_filter_imp(f, f_sampling) ==
    Collect([i \in 1..Len(f) |->
                <<PlotT(i - 1, f_sampling), Mul(f[i], Div(F64(1), f_sampling))>>])

\* the step of plot_filter_stp as the plain trapezoid: y += dt * 0.5 * (f + f_prev)
plot_filter_stp_step_trapezoid(y, f, f_prev, dt) ==
    Add(y, Mul(Mul(dt, Micro(500000)), Add(f, f_prev)))

\* the step of plot_filter_stp with = for +=: y = f_prev + dt * 0.5 * (f + f_prev)
plot_filter_stp_step_assign(y, f, f_prev, dt) ==
    Add(f_prev, Mul(Mul(dt, Micro(500000)), Add(f, f_prev)))

\* one step of plot_filter_stp: y += f_prev + dt * 0.5 * (f + f_prev)
plot_filter_stp_step(y, f, f_prev, dt) ==
    Add(y, Add(f_prev, Mul(Mul(dt, Micro(500000)), Add(f, f_prev))))

\* the map of plot_filter_stp with its captured n, f_prev and y; out is the
\* points collected so far
RECURSIVE plot_filter_stp_map(_, _, _, _, _, _)
plot_filter_stp_map(f, dt, n, f_prev, y, out) ==
    IF Evaluated(out) /\ n < Len(f)
    THEN plot_filter_stp_map(f, dt, n + 1, f[n + 1],
                             plot_filter_stp_step(y, f[n + 1], f_prev, dt),
                             Append(out, <<Mul(F64(n), dt),
                                           plot_filter_stp_step(y, f[n + 1], f_prev, dt)>>))
    ELSE out

plot_filter_stp(f, f_sampling) ==
    plot_filter_stp_map(f, Div(F64(1), f_sampling), 0, F64(0), F64(0), <<>>)

\* theta of plot_dft for bin m and tap n
plot_dft_theta(m, n) == Div(Mul(Mul(F64(2), PIf), F64(m * n)), F64(DFT_LEN))

\* one step of the fold of plot_dft: re += x * cos(theta), im -= x * sin(theta)
plot_dft_step(reim, x, theta) ==
    <<Add(reim[1], Mul(x, Cos(theta))), Sub(reim[2], Mul(x, Sin(theta)))>>

\* the fold of plot_dft for bin m, n counting the taps from 0
RECURSIVE plot_dft_fold(_, _, _, _)
plot_dft_fold(signal, m, n, reim) ==
    IF Evaluated(reim) /\ n < Len(signal)
    THEN plot_dft_fold(signal, m, n + 1,
                       plot_dft_step(reim, signal[n + 1], plot_dft_theta(m, n)))
    ELSE reim

\* the magnitude of bin m divided by the number of taps before it is taken in dB
plot_dft_bin_scaled(signal, m) ==
    Mul(F64(20),
        Log10(Div(Magnitude(plot_dft_fold(signal, m, 0, <<F64(0), F64(0)>>)),
                  F64(Len(signal)))))

\* the magnitude in dB of bin m
plot_dft_bin(signal, m) ==
    Mul(F64(20), Log10(Magnitude(plot_dft_fold(signal, m, 0, <<F64(0), F64(0)>>))))

\* plot_dft with one bin per tap of the signal
plot_dft_per_tap(signal, f_sampling) ==
    Collect([i \in 1..Len(signal) |->
                <<Mul(F64(i - 1), Div(f_sampling, F64(DFT_LEN))),
                  plot_dft_bin(signal, i - 1)>>])

plot_dft(signal, f_sampling) ==
    Collect([i \in 1..(DFT_LEN \div 2) |->
                <<Mul(F64(i - 1), Div(f_sampling, F64(DFT_LEN))),
                  plot_dft_bin(signal, i - 1)>>])

\* the fields of FilterData from the three vectors
FilterDataOf(filter, window, f_windowed, f_sampling) ==
    [filter |-> filter,
     window |-> window,
     f_windowed |-> f_windowed,
     filter_imp |-> plot_filter_imp(filter, f_sampling),
     filter_stp |-> plot_filter_stp(filter, f_sampling),
     filter_dft |-> plot_dft(filter, f_sampling),
     window_fun |-> plot_window(window, f_sampling),
     window_dft |-> plot_dft(window, f_sampling),
     f_windowed_imp |-> plot_filter_imp(f_windowed, f_sampling),
     f_windowed_stp |-> plot_filter_stp(f_windowed, f_sampling),
     f_windowed_dft |-> plot_dft(f_windowed, f_sampling)]

\* FilterData::from after compute_filter_windowed: its panic unwinds through from
FilterDataWindowed(filter, window, fw, f_sampling) ==
    IF fw.panic THEN Panic ELSE Ok(FilterDataOf(filter, window, fw.val, f_sampling))

FilterDataVectors(filter, window, f_sampling) ==
    FilterDataWindowed(filter, window, compute_filter_windowed(filter, window), f_sampling)

\* impl From<&FilterDef> for FilterData
FilterDataFrom(def) ==
    FilterDataVectors(compute_filter(def), compute_window(def), def.f_sampling)

(***************************************************************************)
(* State.                                                                  *)
(*   filter_def, filter_data : the argument and the result of              *)
(*       FilterData::from (the fields App keeps, gui.rs:69-74)             *)
(*   plot_type, show_window : the view settings App keeps (gui.rs:71-72)   *)
(*   locals : the locals f and g of the compute_filter call made by it,    *)
(*       or the local filter_def_prev of App::update                       *)
(*   pc     : "new" before FilterData::from has run, "done" after; "app"   *)
(*       while an App runs                                                 *)
(*   call, ret : the arguments and the outcome of a call of one of the     *)
(*       free-standing functions (compute_filter_windowed, plot_dft)       *)
(***************************************************************************)
VARIABLES filter_def, filter_data, plot_type, show_window, locals, pc, call, ret
vars == <<filter_def, filter_data, plot_type, show_window, locals, pc, call, ret>>

\* bounds of the inputs
MaxLen == 3
MaxShift == 1
MaxVecLen == 2
MaxSigLen == 2
MaxPad == 2

\* sequences over S of length 0..n
RECURSIVE SeqsUpTo(_, _)
SeqsUpTo(S, n) ==
    IF n = 0 THEN {<<>>}
    ELSE SeqsUpTo(S, n - 1) \cup {Append(q, e) : q \in {r \in SeqsUpTo(S, n - 1) : Len(r) = n - 1}, e \in S}

Repeat(val, n) == [i \in 1..n |-> val] \o <<>>

\* sampling rate, low cut, high cut, in Hz; the degenerate cut-offs are drawn
\* with the rectangular window only
Freqs(window) ==
    IF window = "Rectangular"
    THEN {<<8, 1, 2>>, <<8, 1, 0>>, <<4, 0, 1>>, <<8, 2, 2>>}
    ELSE {<<8, 1, 2>>}

FilterDefs ==
    {[filter |-> f, window |-> w, len |-> l, shift |-> s,
      f_sampling |-> F64(fr[1]), f_lo_cut |-> F64(fr[2]), f_hi_cut |-> F64(fr[3])] :
        f \in Filters, w \in Windows, l \in 0..MaxLen, s \in 0..MaxShift,
        fr \in UNION {Freqs(x) : x \in Windows}}

NoDef == [filter |-> "LowPass", window |-> "Rectangular", len |-> 0, shift |-> 0,
          f_sampling |-> F64(0), f_lo_cut |-> F64(0), f_hi_cut |-> F64(0)]
NoData == [panic |-> FALSE, val |-> <<>>]
NoLocals == [f |-> <<>>, g |-> F64(0)]
NoCall == [fn |-> "none"]
NoRet == [done |-> FALSE, panic |-> FALSE, val |-> <<>>]
NoPlotType == "Impulse"
NoShowWindow == FALSE

(***************************************************************************)
(* FilterData::from applied to a FilterDef drawn from FilterDefs           *)
(***************************************************************************)
InitDesign ==
    /\ filter_def \in {d \in FilterDefs :
          <<d.f_sampling, d.f_lo_cut, d.f_hi_cut>> \in
              {<<F64(fr[1]), F64(fr[2]), F64(fr[3])>> : fr \in Freqs(d.window)}}
    /\ filter_data = NoData
    /\ locals = NoLocals
    /\ pc = "new"
    /\ plot_type = NoPlotType
    /\ show_window = NoShowWindow
    /\ call = NoCall
    /\ ret = NoRet

\* the locals f and g of compute_filter
ComputeFilterLocals(def, f) == [f |-> f, g |-> compute_filter_g(def, f)]

\* impl From<&FilterDef> for FilterData, gui.rs:24-50
From ==
    /\ pc = "new"
    /\ filter_data' = FilterDataFrom(filter_def)
    /\ locals' = ComputeFilterLocals(filter_def, compute_filter_f(filter_def))
    /\ pc' = "done"
    /\ UNCHANGED <<filter_def, plot_type, show_window, call, ret>>

NextDesign == From
Spec == InitDesign /\ [][NextDesign]_vars

\* the views of FilterData are the plots of its three vectors
ViewsOfVectors(data, f_sampling) ==
    data = FilterDataOf(data.filter, data.window, data.f_windowed, f_sampling)

C4_GainSelectedByClass ==
    pc = "done" =>
        /\ filter_def.filter \in {"LowPass", "BandStop"} =>
              locals.g = compute_dc_gain(locals.f)
        /\ filter_def.filter = "HighPass" =>
              locals.g = compute_gain(locals.f, Div(filter_def.f_sampling, F64(2)))
        /\ filter_def.filter = "BandPass" =>
              locals.g = compute_gain(locals.f,
                                      Add(filter_def.f_lo_cut,
                                          Div(Sub(filter_def.f_hi_cut, filter_def.f_lo_cut),
                                              F64(2))))
        /\ ~filter_data.panic
        /\ filter_data.val.filter = normalize_filter(locals.f, locals.g)

\* a HighPass and a BandPass design would get another gain from the DC rule, and
\* a BandPass design another one from the HighPass target: here a design of one
\* of the two point-gain classes whose finite gain differs from its DC gain
C4_Witness ==
    /\ pc = "done"
    /\ filter_def.filter \in {"HighPass", "BandPass"}
    /\ filter_def.len >= 2
    /\ IsFinite(locals.g) /\ ~IsZero(locals.g)
    /\ locals.g # compute_dc_gain(locals.f)
    /\ locals.g # compute_gain(locals.f,
                               IF filter_def.filter = "HighPass"
                               THEN Add(filter_def.f_lo_cut,
                                        Div(Sub(filter_def.f_hi_cut, filter_def.f_lo_cut),
                                            F64(2)))
                               ELSE Div(filter_def.f_sampling, F64(2)))

\* the target frequency f in radians per sample at the sampling rate f_sampling
RadiansPerSample(f, f_sampling) == Div(Mul(Mul(F64(2), PIf), f), f_sampling)

\* C5: the point gain a HighPass or BandPass design is normalized by is
\* sqrt(re^2 + im^2) of re = sum h[n] cos(omega n), im = - sum h[n] sin(omega n),
\* n = 0, 1, .. one per tap, with omega the target frequency in radians per sample:
\* pi for the HighPass target f_sampling / 2, whatever the sampling rate in Hz.
C5_PointGainInRadiansPerSample ==
    pc = "done" =>
        /\ filter_def.filter = "HighPass" =>
              locals.g = compute_gain(locals.f, PIf)
        /\ filter_def.filter = "BandPass" =>
              locals.g = compute_gain(locals.f,
                            RadiansPerSample(Add(filter_def.f_lo_cut,
                                                 Div(Sub(filter_def.f_hi_cut,
                                                         filter_def.f_lo_cut), F64(2))),
                                             filter_def.f_sampling))

\* C6: when the gain of a design is zero, compute_filter still returns a vector of
\* len elements, none of them finite, and FilterData::from returns normally.
C6_ZeroGainGivesNonFinite ==
    (pc = "done" /\ IsZero(locals.g)) =>
        /\ ~filter_data.panic
        /\ Len(filter_data.val.filter) = filter_def.len
        /\ \A i \in 1..filter_def.len : ~IsFinite(filter_data.val.filter[i])

\* a LowPass design with f_hi_cut = 0 and at least two taps: every raw tap is
\* zero, the gain is zero, every returned tap is NaN
C6_Witness ==
    /\ pc = "done"
    /\ filter_def.filter = "LowPass"
    /\ IsZero(filter_def.f_hi_cut)
    /\ filter_def.len >= 2
    /\ \A i \in 1..filter_def.len : IsZero(locals.f[i])
    /\ IsZero(locals.g)
    /\ ~filter_data.panic
    /\ \A i \in 1..filter_def.len : IsNaN(filter_data.val.filter[i])

\* C7: a design with len = 0 is rejected: FilterData::from does not return
\* normally with empty vectors and views.
C7_ZeroLenIsRejected ==
    (pc = "done" /\ filter_def.len = 0) => filter_data.panic

\* C8: for len = 1 and a window other than the rectangular one, the single window
\* value is NaN, and so are the single windowed tap and the y of every point of
\* the window view, the windowed impulse and step views and the window and
\* windowed spectra; FilterData::from returns normally.
C8_OneTapWindowIsNaN ==
    (pc = "done" /\ filter_def.len = 1 /\ filter_def.window # "Rectangular") =>
        /\ ~filter_data.panic
        /\ filter_data.val.window = <<NaN>>
        /\ filter_data.val.f_windowed = <<NaN>>
        /\ Len(filter_data.val.window_fun) = 1 /\ IsNaN(filter_data.val.window_fun[1][2])
        /\ Len(filter_data.val.f_windowed_imp) = 1
        /\ IsNaN(filter_data.val.f_windowed_imp[1][2])
        /\ Len(filter_data.val.f_windowed_stp) = 1
        /\ IsNaN(filter_data.val.f_windowed_stp[1][2])
        /\ \A m \in 1..(DFT_LEN \div 2) :
              /\ IsNaN(filter_data.val.window_dft[m][2])
              /\ IsNaN(filter_data.val.f_windowed_dft[m][2])

\* a one-tap design under the Hann window whose filter tap is finite: the window
\* tap and the windowed tap are NaN all the same
C8_Witness ==
    /\ pc = "done"
    /\ filter_def.len = 1
    /\ filter_def.window = "Hann"
    /\ ~filter_data.panic
    /\ IsFinite(filter_data.val.filter[1])
    /\ IsNaN(filter_data.val.window[1])
    /\ IsNaN(filter_data.val.f_windowed[1])

\* C17: for every FilterDef, shift >= len included, compute_filter and
\* compute_window return len elements each, so compute_filter_windowed does not
\* panic inside FilterData::from and the windowed kernel has len elements too.
C17_PipelineLengthsAgree ==
    pc = "done" =>
        /\ ~filter_data.panic
        /\ Len(locals.f) = filter_def.len
        /\ Len(filter_data.val.filter) = filter_def.len
        /\ Len(filter_data.val.window) = filter_def.len
        /\ Len(filter_data.val.f_windowed) = filter_def.len

\* a design of at least one tap whose shift is not below len has gone through
C17_Witness ==
    /\ pc = "done"
    /\ filter_def.len >= 1
    /\ filter_def.shift >= filter_def.len
    /\ ~filter_data.panic
    /\ Len(filter_data.val.filter) = filter_def.len
    /\ Len(filter_data.val.window) = filter_def.len

\* the value a kernel takes at n = shift, by class
LimitValue(def) ==
    CASE def.filter = "LowPass" -> Mul(F64(2), def.f_hi_cut)
      [] def.filter = "HighPass" ->
            Sub(Div(F64(1), Div(F64(1), def.f_sampling)), Mul(F64(2), def.f_lo_cut))
      [] def.filter = "BandPass" ->
            Sub(Mul(F64(2), def.f_hi_cut), Mul(F64(2), def.f_lo_cut))
      [] def.filter = "BandStop" ->
            Add(Sub(Mul(F64(2), def.f_lo_cut), Mul(F64(2), def.f_hi_cut)),
                Div(F64(1), Div(F64(1), def.f_sampling)))

\* the numerator of a kernel away from n = shift, by class, dt = 1 / f_sampling
Numerator(def, dt, tau) ==
    CASE def.filter = "LowPass" -> SinCut(def.f_hi_cut, dt, tau)
      [] def.filter = "HighPass" -> Sub(SinPiTau(tau), SinCut(def.f_lo_cut, dt, tau))
      [] def.filter = "BandPass" ->
            Sub(SinCut(def.f_hi_cut, dt, tau), SinCut(def.f_lo_cut, dt, tau))
      [] def.filter = "BandStop" ->
            Add(Sub(SinCut(def.f_lo_cut, dt, tau), SinCut(def.f_hi_cut, dt, tau)),
                SinPiTau(tau))

\* the quotient a kernel takes away from n = shift
DivisionValue(def, dt, tau) == Div(Numerator(def, dt, tau), PiDtTau(dt, tau))

\* C18: tap n of the raw kernel is the limit value of its class when n = shift,
\* and otherwise the quotient by pi dt tau with tau = n - shift, which is not 0:
\* with shift < len exactly the tap at index shift comes from the limit branch.
C18_LimitBranchOnlyAtShift ==
    pc = "done" =>
        \A i \in 1..filter_def.len :
            IF i - 1 = filter_def.shift
            THEN locals.f[i] = LimitValue(filter_def)
            ELSE /\ ~IsZero(Sub(F64(i - 1), F64(filter_def.shift)))
                 /\ locals.f[i] =
                       DivisionValue(filter_def, Div(F64(1), filter_def.f_sampling),
                                     Sub(F64(i - 1), F64(filter_def.shift)))

\* a BandStop design with shift < len and two taps or more: the tap at shift is
\* the finite limit value, and another tap is a finite quotient of another value
C18_Witness ==
    /\ pc = "done"
    /\ filter_def.filter = "BandStop"
    /\ filter_def.shift < filter_def.len
    /\ filter_def.len >= 2
    /\ IsFinite(locals.f[filter_def.shift + 1])
    /\ locals.f[filter_def.shift + 1] = LimitValue(filter_def)
    /\ \E i \in 1..filter_def.len :
          /\ i - 1 # filter_def.shift
          /\ IsFinite(locals.f[i])
          /\ locals.f[i] # LimitValue(filter_def)

(***************************************************************************)
(* compute_filter_windowed applied to two vectors                          *)
(***************************************************************************)
TapValues == {F64(0), F64(1), Fin(-(3 * ONE) \div 2)}

InitWindowed ==
    /\ call \in {[fn |-> "compute_filter_windowed", f |-> f, w |-> w] :
                    f \in SeqsUpTo(TapValues, MaxVecLen),
                    w \in SeqsUpTo(TapValues, MaxVecLen)}
    /\ ret = NoRet
    /\ filter_def = NoDef
    /\ filter_data = NoData
    /\ locals = NoLocals
    /\ pc = "none"
    /\ plot_type = NoPlotType
    /\ show_window = NoShowWindow

CallComputeFilterWindowed ==
    /\ call.fn = "compute_filter_windowed"
    /\ ~ret.done
    /\ LET r == compute_filter_windowed(call.f, call.w)
       IN  ret' = [done |-> TRUE, panic |-> r.panic, val |-> r.val]
    /\ UNCHANGED <<filter_def, filter_data, plot_type, show_window, locals, pc, call>>

NextWindowed == CallComputeFilterWindowed
SpecWindowed == InitWindowed /\ [][NextWindowed]_vars

\* C3: compute_filter_windowed called with vectors of different lengths, an empty
\* one included, panics and returns no vector; called with vectors of one length
\* it returns their product, tap by tap.
C3_MismatchedLengthsPanic ==
    ret.done =>
        /\ Len(call.f) # Len(call.w) => (ret.panic /\ ret.val = <<>>)
        /\ Len(call.f) = Len(call.w) =>
              /\ ~ret.panic
              /\ Len(ret.val) = Len(call.f)
              /\ \A i \in 1..Len(call.f) : ret.val[i] = Mul(call.f[i], call.w[i])

\* the call has returned for an empty f and a w of one tap: it panicked
C3_Witness ==
    /\ ret.done
    /\ Len(call.f) = 0
    /\ Len(call.w) = 1
    /\ ret.panic

(***************************************************************************)
(* plot_dft applied to a coefficient vector and to the same vector         *)
(* followed by pad zero taps                                               *)
(***************************************************************************)
SignalValues == {F64(0), F64(1), Fin(-(3 * ONE) \div 2), NaN}

\* short vectors with every short padding, and the long cases by themselves
DftInputs ==
    {<<h, k>> : h \in SeqsUpTo(SignalValues, MaxSigLen), k \in 0..MaxPad}
    \cup {<<Repeat(F64(1), 4), 60>>, <<Repeat(F64(1), 64), 0>>}

InitDft ==
    /\ call \in {[fn |-> "plot_dft", signal |-> hk[1], pad |-> hk[2], f_sampling |-> F64(fs)] :
                    hk \in DftInputs, fs \in {4, 8}}
    /\ ret = NoRet
    /\ filter_def = NoDef
    /\ filter_data = NoData
    /\ locals = NoLocals
    /\ pc = "none"
    /\ plot_type = NoPlotType
    /\ show_window = NoShowWindow

CallPlotDft ==
    /\ call.fn = "plot_dft"
    /\ ~ret.done
    /\ ret' = [done |-> TRUE, panic |-> FALSE,
               val |-> [dft |-> plot_dft(call.signal, call.f_sampling),
                        dft_padded |-> plot_dft(call.signal \o Repeat(F64(0), call.pad),
                                                call.f_sampling)]]
    /\ UNCHANGED <<filter_def, filter_data, plot_type, show_window, locals, pc, call>>

NextDft == CallPlotDft
SpecDft == InitDft /\ [][NextDft]_vars

\* C9: the spectrum plot_dft returns has DFT_LEN / 2 = 128 points whatever the
\* length of the signal, and the x of point m is m * f_sampling / 256, m = 0..127.
C9_SpectrumHasHalfDftLenPoints ==
    ret.done =>
        /\ Len(ret.val.dft) = 128
        /\ Len(ret.val.dft_padded) = 128
        /\ \A m \in 0..127 :
              /\ ret.val.dft[m + 1][1] = Div(Mul(F64(m), call.f_sampling), F64(256))
              /\ ret.val.dft_padded[m + 1][1] = ret.val.dft[m + 1][1]

\* plot_dft has returned for a signal of 64 taps: 128 points, the last at
\* 127 * f_sampling / 256
C9_Witness ==
    /\ ret.done
    /\ Len(call.signal) = 64
    /\ Len(ret.val.dft) = 128
    /\ ret.val.dft[128][1] = Div(Mul(F64(127), call.f_sampling), F64(256))

\* C10: appending zero taps to a signal leaves the spectrum plot_dft returns as it
\* is, point for point.
C10_ZeroPaddingKeepsSpectrum ==
    ret.done => ret.val.dft_padded = ret.val.dft

\* plot_dft has returned for four ones and for four ones followed by 60 zeros,
\* and bin 0 of the spectrum is finite: 20 log10(4), between 12 and 12.1 dB
C10_Witness ==
    /\ ret.done
    /\ call.signal = <<F64(1), F64(1), F64(1), F64(1)>>
    /\ call.pad = 60
    /\ IsFinite(ret.val.dft[1][2])
    /\ ret.val.dft[1][2].v > 12 * ONE
    /\ ret.val.dft[1][2].v < 12 * ONE + ONE \div 10
    /\ ret.val.dft_padded[1][2] = ret.val.dft[1][2]

(***************************************************************************)
(* plot_filter_stp applied to a coefficient vector                         *)
(***************************************************************************)
MaxStpLen == 3

StpValues == {F64(0), F64(1), Fin(-(3 * ONE) \div 2), PosInf}

InitStp ==
    /\ call \in {[fn |-> "plot_filter_stp", f |-> f, f_sampling |-> F64(fs)] :
                    f \in SeqsUpTo(StpValues, MaxStpLen), fs \in {4, 8}}
    /\ ret = NoRet
    /\ filter_def = NoDef
    /\ filter_data = NoData
    /\ locals = NoLocals
    /\ pc = "none"
    /\ plot_type = NoPlotType
    /\ show_window = NoShowWindow

CallPlotFilterStp ==
    /\ call.fn = "plot_filter_stp"
    /\ ~ret.done
    /\ ret' = [done |-> TRUE, panic |-> FALSE,
               val |-> plot_filter_stp(call.f, call.f_sampling)]
    /\ UNCHANGED <<filter_def, filter_data, plot_type, show_window, locals, pc, call>>

NextStp == CallPlotFilterStp
SpecStp == InitStp /\ [][NextStp]_vars

\* h[n] of the recurrence, n counting from 0, with h[-1] = 0
StepTap(h, n) == IF n < 0 THEN F64(0) ELSE h[n + 1]

\* y[n] of the recurrence y[n] = y[n-1] + h[n-1] + dt 0.5 (h[n] + h[n-1]), y[-1] = 0
RECURSIVE StepY(_, _, _)
StepY(h, dt, n) ==
    IF n < 0 THEN F64(0)
    ELSE Add(Add(StepY(h, dt, n - 1), StepTap(h, n - 1)),
             Mul(Mul(dt, Micro(500000)), Add(StepTap(h, n), StepTap(h, n - 1))))

\* C11: the step view of h has one point per tap, point n being (n dt, y[n]) with
\* y[n] = y[n-1] + h[n-1] + dt 0.5 (h[n] + h[n-1]), y[-1] = 0 and h[-1] = 0; so
\* y[0] = dt 0.5 h[0].
C11_StepViewRecurrence ==
    ret.done =>
        /\ Len(ret.val) = Len(call.f)
        /\ \A n \in 0..(Len(call.f) - 1) :
              /\ ret.val[n + 1][1] = Mul(F64(n), Div(F64(1), call.f_sampling))
              /\ ret.val[n + 1][2] = StepY(call.f, Div(F64(1), call.f_sampling), n)
        /\ Len(call.f) >= 1 =>
              ret.val[1][2] = Mul(Mul(Div(F64(1), call.f_sampling), Micro(500000)),
                                  call.f[1])

\* the step view of <<1, -1.5, 1>> at 8 Hz: y[1] = 1/16 + 1 - 1/32 and
\* y[2] = y[1] - 1.5 - 1/32, so the tap before is added outside the trapezoid
C11_Witness ==
    /\ ret.done
    /\ call.f = <<F64(1), Fin(-(3 * ONE) \div 2), F64(1)>>
    /\ call.f_sampling = F64(8)
    /\ ret.val[1] = <<F64(0), Fin(ONE \div 16)>>
    /\ ret.val[2] = <<Fin(ONE \div 8), Fin(ONE + ONE \div 32)>>
    /\ ret.val[3] = <<Fin(ONE \div 4), Fin(-(ONE \div 2))>>

\* a >= b on f64: false when either is NaN
Geq(a, b) ==
    /\ ~IsNaN(a) /\ ~IsNaN(b)
    /\ IF a.k = "inf" THEN (a.v > 0 \/ b = a)
       ELSE IF b.k = "inf" THEN b.v < 0
       ELSE a.v >= b.v

\* C12: when every tap is >= 0 (the sampling rate being finite and > 0), the y of
\* the step view never decreases from one point to the next, and y[0] >= 0.
C12_StepViewMonotone ==
    (ret.done /\ \A i \in 1..Len(call.f) : Geq(call.f[i], F64(0))) =>
        /\ Len(call.f) >= 1 => Geq(ret.val[1][2], F64(0))
        /\ \A n \in 2..Len(call.f) : Geq(ret.val[n][2], ret.val[n - 1][2])

\* the step view of <<1, 0, 0>>: it rises from y[0] > 0 to y[1] and stays there
C12_Witness ==
    /\ ret.done
    /\ call.f = <<F64(1), F64(0), F64(0)>>
    /\ IsFinite(ret.val[1][2]) /\ ret.val[1][2].v > 0
    /\ IsFinite(ret.val[2][2]) /\ ret.val[2][2].v > ret.val[1][2].v
    /\ ret.val[3][2] = ret.val[2][2]

(***************************************************************************)
(* compute_window applied to a FilterDef of a given window and length      *)
(***************************************************************************)
MaxWinLen == 8

InitWindow ==
    /\ call \in {[fn |-> "compute_window", def |-> [NoDef EXCEPT !.window = w, !.len = l]] :
                    w \in Windows, l \in 0..MaxWinLen}
    /\ ret = NoRet
    /\ filter_def = NoDef
    /\ filter_data = NoData
    /\ locals = NoLocals
    /\ pc = "none"
    /\ plot_type = NoPlotType
    /\ show_window = NoShowWindow

CallComputeWindow ==
    /\ call.fn = "compute_window"
    /\ ~ret.done
    /\ ret' = [done |-> TRUE, panic |-> FALSE, val |-> compute_window(call.def)]
    /\ UNCHANGED <<filter_def, filter_data, plot_type, show_window, locals, pc, call>>

NextWindow == CallComputeWindow
SpecWindow == InitWindow /\ [][NextWindow]_vars

\* the window kinds the symmetry is stated for
SymmetricWindows == Windows \ {"Rectangular", "Sin"}

\* C13: for each of the nine symmetric window kinds and every L >= 1, the window
\* of L + 1 taps has the same value at n = 0 and at n = L.
C13_WindowEndpointsEqual ==
    (ret.done /\ call.def.window \in SymmetricWindows /\ call.def.len >= 2) =>
        /\ Len(ret.val) = call.def.len
        /\ ret.val[1] = WindowFn(call.def.window, 0, call.def.len - 1)
        /\ ret.val[call.def.len] =
              WindowFn(call.def.window, call.def.len - 1, call.def.len - 1)
        /\ ret.val[1] = ret.val[call.def.len]

\* a Hamming window of five taps: the two ends are equal, finite and not 0, and
\* the middle tap is another value
C13_Witness ==
    /\ ret.done
    /\ call.def.window = "Hamming"
    /\ call.def.len = 5
    /\ IsFinite(ret.val[1]) /\ ~IsZero(ret.val[1])
    /\ ret.val[1] = ret.val[5]
    /\ ret.val[3] # ret.val[1]

\* C15: compute_window with the rectangular window returns len taps, each exactly
\* 1.0, for every len, len = 0 and len = 1 (window length 0) included.
C15_RectangularIsOne ==
    (ret.done /\ call.def.window = "Rectangular") =>
        /\ Len(ret.val) = call.def.len
        /\ \A i \in 1..call.def.len : ret.val[i] = F64(1)

\* the rectangular window of one tap (window length 0) is <<1.0>>
C15_Witness ==
    /\ ret.done
    /\ call.def.window = "Rectangular"
    /\ call.def.len = 1
    /\ ret.val = <<F64(1)>>

(***************************************************************************)
(* compute_filter applied to a FilterDef and to the same FilterDef with    *)
(* one of its cut-offs replaced                                            *)
(***************************************************************************)
CutValues == {F64(0), F64(1), F64(3), NaN}

PairDefs ==
    {[filter |-> f, window |-> "Rectangular", len |-> l, shift |-> s,
      f_sampling |-> F64(fr[1]), f_lo_cut |-> F64(fr[2]), f_hi_cut |-> F64(fr[3])] :
        f \in Filters, l \in 0..MaxLen, s \in 0..MaxShift,
        fr \in {<<8, 1, 2>>, <<4, 0, 1>>}}

InitPair ==
    /\ call \in {[fn |-> "compute_filter", def |-> d, cut |-> c] :
                    d \in PairDefs, c \in CutValues}
    /\ ret = NoRet
    /\ filter_def = NoDef
    /\ filter_data = NoData
    /\ locals = NoLocals
    /\ pc = "none"
    /\ plot_type = NoPlotType
    /\ show_window = NoShowWindow

CallComputeFilterPair ==
    /\ call.fn = "compute_filter"
    /\ ~ret.done
    /\ ret' = [done |-> TRUE, panic |-> FALSE,
               val |-> [base |-> compute_filter(call.def),
                        lo_replaced |->
                            compute_filter([call.def EXCEPT !.f_lo_cut = call.cut]),
                        hi_replaced |->
                            compute_filter([call.def EXCEPT !.f_hi_cut = call.cut])]]
    /\ UNCHANGED <<filter_def, filter_data, plot_type, show_window, locals, pc, call>>

NextPair == CallComputeFilterPair
SpecPair == InitPair /\ [][NextPair]_vars

\* C19: compute_filter of a LowPass design does not depend on f_lo_cut, and
\* compute_filter of a HighPass design does not depend on f_hi_cut.
C19_UnusedCutoffIgnored ==
    ret.done =>
        /\ call.def.filter = "LowPass" => ret.val.lo_replaced = ret.val.base
        /\ call.def.filter = "HighPass" => ret.val.hi_replaced = ret.val.base

\* a LowPass and a HighPass design of two taps or more with finite taps, the
\* unused cut-off replaced by another value: the output is the same, while
\* replacing the cut-off in use gives another output
C19_Witness ==
    /\ ret.done
    /\ call.def.filter \in {"LowPass", "HighPass"}
    /\ call.def.len >= 2
    /\ call.cut # call.def.f_lo_cut /\ call.cut # call.def.f_hi_cut
    /\ IsFinite(call.cut)
    /\ \A i \in 1..call.def.len : IsFinite(ret.val.base[i])
    /\ IF call.def.filter = "LowPass"
       THEN ret.val.lo_replaced = ret.val.base /\ ret.val.hi_replaced # ret.val.base
       ELSE ret.val.hi_replaced = ret.val.base /\ ret.val.lo_replaced # ret.val.base

(***************************************************************************)
(* App: the state App::new builds, then calls of App::update, one per      *)
(* frame.  The edits a frame makes to filter_def are drawn from AppDefs.   *)
(***************************************************************************)
\* the FilterDef App::new builds, gui.rs:78-83
NewDef == [filter |-> "LowPass", window |-> "Rectangular", len |-> 64, shift |-> 32,
           f_sampling |-> F64(1000), f_lo_cut |-> F64(100), f_hi_cut |-> F64(300)]

PlotTypes == {"Impulse", "Step"}

\* the designs the widgets of a frame set filter_def to: a band-pass design
\* and the designs that differ from it in one field
AppBase == [filter |-> "BandPass", window |-> "Rectangular", len |-> 2, shift |-> 0,
            f_sampling |-> F64(8), f_lo_cut |-> F64(1), f_hi_cut |-> F64(2)]
AppDefs ==
    {AppBase,
     [AppBase EXCEPT !.filter = "LowPass"],
     [AppBase EXCEPT !.filter = "HighPass"],
     [AppBase EXCEPT !.window = "Hann"],
     [AppBase EXCEPT !.len = 3],
     [AppBase EXCEPT !.shift = 1],
     [AppBase EXCEPT !.f_sampling = F64(4)],
     [AppBase EXCEPT !.f_lo_cut = F64(0)],
     [AppBase EXCEPT !.f_hi_cut = F64(3)]}

\* FilterData::from of the designs of AppDefs, evaluated once each
FilterDataTable == [d \in AppDefs |-> FilterDataFrom(d)]

\* f64's !=: a NaN differs from everything, itself included
F64Ne(a, b) == IsNaN(a) \/ IsNaN(b) \/ a # b

\* a comparison that leaves the window kind out
FilterDefNe_without_window(a, b) ==
    \/ a.filter # b.filter
    \/ a.len # b.len
    \/ a.shift # b.shift
    \/ F64Ne(a.f_sampling, b.f_sampling)
    \/ F64Ne(a.f_lo_cut, b.f_lo_cut)
    \/ F64Ne(a.f_hi_cut, b.f_hi_cut)

\* the derived PartialEq of FilterDef, fir.rs:4-13, as gui.rs:363 uses it
FilterDefNe(a, b) ==
    \/ a.filter # b.filter
    \/ a.window # b.window
    \/ a.len # b.len
    \/ a.shift # b.shift
    \/ F64Ne(a.f_sampling, b.f_sampling)
    \/ F64Ne(a.f_lo_cut, b.f_lo_cut)
    \/ F64Ne(a.f_hi_cut, b.f_hi_cut)

\* the values a frame's widgets can leave in filter_def: the cut-off widgets
\* shown are chosen by the filter class as the combo box of this frame left it,
\* the low cut is not shown for LowPass and the high cut is not shown for
\* HighPass, gui.rs:190-226
EditedDefs(def) ==
    {d \in AppDefs \cup {def} :
        /\ d.filter = "LowPass" => d.f_lo_cut = def.f_lo_cut
        /\ d.filter = "HighPass" => d.f_hi_cut = def.f_hi_cut}

Line(plot, name, points) == [plot |-> plot, name |-> name, points |-> points]

\* the lines a frame draws, in order, gui.rs:285-356
PlotLines(data, pt, sw) ==
    << Line("filter_resp_time", "Filter",
            IF pt = "Impulse" THEN data.filter_imp ELSE data.filter_stp),
       Line("filter_resp_time", "Windowed",
            IF pt = "Impulse" THEN data.f_windowed_imp ELSE data.f_windowed_stp),
       Line("filter_resp_freq", "Filter", data.filter_dft),
       Line("filter_resp_freq", "Windowed", data.f_windowed_dft) >>
    \o (IF sw
        THEN << Line("window_resp_time", "", data.window_fun),
                Line("window_resp_freq", "", data.window_dft) >>
        ELSE << >>)

\* what a frame shows: the vector "Export Filter" prints when clicked and the
\* lines drawn, gui.rs:254-256 and 285-356
UpdateOutput(data, pt, sw, export) ==
    [printed |-> IF export THEN << data.f_windowed >> ELSE << >>,
     lines |-> PlotLines(data, pt, sw)]

\* FilterData::from as gui.rs:364 calls it
UpdateFrom(def) == FilterDataTable[def]

\* a frame that recomputes filter_data before it draws
update_recompute_first(data, def_prev, def, pt, sw, export) ==
    [out |-> UpdateOutput(IF FilterDefNe(def_prev, def) THEN UpdateFrom(def).val ELSE data.val,
                          pt, sw, export),
     data |-> IF FilterDefNe(def_prev, def) THEN UpdateFrom(def) ELSE data]

\* the body of App::update after the widgets have set def, pt, sw and export:
\* the output is drawn from the filter_data of the start of the call, then
\* filter_data is recomputed if filter_def differs from filter_def_prev,
\* gui.rs:254-365
update(data, def_prev, def, pt, sw, export) ==
    [out |-> UpdateOutput(data.val, pt, sw, export),
     data |-> IF FilterDefNe(def_prev, def) THEN UpdateFrom(def) ELSE data]

\* App::new, gui.rs:77-93
InitApp ==
    /\ filter_def = NewDef
    /\ filter_data = FilterDataFrom(NewDef)
    /\ plot_type = "Impulse"
    /\ show_window = TRUE
    /\ locals = NoLocals
    /\ pc = "app"
    /\ call = NoCall
    /\ ret = NoRet

\* App::update, gui.rs:131-366; a panic of FilterData::from ends the App
Update ==
    /\ pc = "app"
    /\ \E d \in EditedDefs(filter_def), pt \in PlotTypes, sw \in BOOLEAN, export \in BOOLEAN :
         LET r == update(filter_data, filter_def, d, pt, sw, export) IN
           /\ locals' = [filter_def_prev |-> filter_def]
           /\ call' = [fn |-> "update", export |-> export]
           /\ filter_def' = d
           /\ plot_type' = pt
           /\ show_window' = sw
           /\ ret' = [done |-> TRUE, panic |-> r.data.panic, val |-> r.out]
           /\ filter_data' = r.data
           /\ pc' = IF r.data.panic THEN "panicked" ELSE "app"

NextApp == Update
SpecApp == InitApp /\ [][NextApp]_vars

\* C16: App::new leaves filter_data = FilterData::from(filter_def), and every
\* call of App::update keeps filter_data when it leaves filter_def as it was and
\* sets it to FilterData::from of the new filter_def when it changed any field:
\* at the end of every call filter_data is FilterData::from(filter_def).
C16_DataIsFromDef ==
    /\ filter_data = FilterDataFrom(filter_def)
    /\ [][filter_data' = IF filter_def' = filter_def
                         THEN filter_data
                         ELSE FilterDataTable[filter_def']]_vars

\* a frame has changed the window kind alone, and filter_data is
\* FilterData::from of the new design and no longer that of the old one
C16_Witness ==
    /\ ret.done
    /\ locals.filter_def_prev \in AppDefs
    /\ filter_def = [locals.filter_def_prev EXCEPT !.window = "Hann"]
    /\ filter_def # locals.filter_def_prev
    /\ filter_data = FilterDataFrom(filter_def)
    /\ filter_data # FilterDataFrom(locals.filter_def_prev)

\* C20: what a call of App::update prints and draws is taken from filter_data as
\* the call found it, which is FilterData::from of the filter_def the call
\* started with; an edit made in the call enters filter_data at the end of the
\* call, so the next call shows it.
C20_OutputIsOfDefAtStart ==
    [][/\ locals'.filter_def_prev = filter_def
       /\ filter_def \in AppDefs => filter_data = FilterDataTable[filter_def]
       /\ ret'.val.lines = PlotLines(filter_data.val, plot_type', show_window')
       /\ ret'.val.printed = IF call'.export THEN << filter_data.val.f_windowed >>
                             ELSE << >>
       /\ filter_def' \in AppDefs => filter_data' = FilterDataTable[filter_def']]_vars

\* a frame has edited the design and exported: the vector printed and the lines
\* drawn are those of the design the frame started with, not of the edited one
C20_Witness ==
    /\ ret.done
    /\ call.export
    /\ locals.filter_def_prev \in AppDefs
    /\ filter_def \in AppDefs
    /\ filter_def # locals.filter_def_prev
    /\ ret.val = UpdateOutput(FilterDataTable[locals.filter_def_prev].val,
                              plot_type, show_window, TRUE)
    /\ ret.val.printed # << FilterDataTable[filter_def].val.f_windowed >>
    /\ ret.val.lines # PlotLines(FilterDataTable[filter_def].val, plot_type, show_window)
    /\ filter_data = FilterDataTable[filter_def]
====
